---- MODULE Spec2Model ----
(***************************************************************************)
(* Shapes library: the JSON-backed category store (categories.json), the   *)
(* shape repository (shapes/<category>.json), the preview asset manager    *)
(* (assets/<category>/<id>.png, orphan repair and its marker file) and the *)
(* UI handlers that drive them.                                            *)
(*                                                                         *)
(* A file is a record [kind, ...]: kind "absent" (no such file), "corrupt" *)
(* (present, JSON.parse throws), "nofield" (categories.json parses but has *)
(* no categories member) or "ok".  A preview path "<dir>/<base>.png" is    *)
(* the pair <<dir, base>>.  Every operation takes the set io of the file   *)
(* primitives that fail during the call; io = {} is a reliable file        *)
(* system.  The variable call records the last call: its name, arguments,  *)
(* whether it returned (ok) or raised (err), what it returned (ret) and    *)
(* the file primitives it performed (fx).                                  *)
(***************************************************************************)
EXTENDS Integers, Sequences, FiniteSets, TLC

VARIABLES
    categoriesFile,      \* {root}/categories.json
    DEFAULT_CATEGORIES,  \* the module-level array of categoryManager (mutable)
    shapeFiles,          \* category id -> {root}/shapes/<id>.json
    assets,              \* <<dir, base>> -> content of {root}/assets/<dir>/<base>.png
    assetDirs,           \* the directories {root}/assets/<dir> that exist
    marker,              \* {root}/.preview_repair_done exists
    call,                \* the last call and its outcome
    handlers             \* the UI handlers suspended at an await

vars == <<categoriesFile, DEFAULT_CATEGORIES, shapeFiles, assets, assetDirs, marker, call,
          handlers>>

\* The same with the name and the outcome of the last call in front: a
\* step that differs in them is told from a stuttering step by them.
opVars == <<call.op, call.ok, vars>>

(***************************************************************************)
(* Bounds of the model.                                                    *)
(***************************************************************************)
MaxCategories == 5       \* addCategory is not offered beyond this many entries
MaxShapesPerFile == 2    \* addShapeToLibrary is not offered beyond this many records
MaxHandlers == 2         \* no handler is invoked while this many are suspended

(***************************************************************************)
(* Small sequence helpers.                                                 *)
(***************************************************************************)
Range(s) == {s[i] : i \in 1..Len(s)}

\* A findIndex that never finds: -1 whatever the array holds.
findIndexNone(s, id) == 0

\* findIndex((x) => x.id === id): the first index with that id, 0 for -1.
findIndexById(s, id) ==
    IF \E i \in 1..Len(s) : s[i].id = id
    THEN CHOOSE i \in 1..Len(s) : s[i].id = id /\ \A j \in 1..(i - 1) : s[j].id # id
    ELSE 0

\* The filter with its test inverted: filter((x) => x.id === id)
filterKeepId(s, id) == SelectSeq(s, LAMBDA x : x.id = id)

\* filter((x) => x.id !== id)
filterOutId(s, id) == SelectSeq(s, LAMBDA x : x.id # id)

\* Array.prototype.splice(index, 1)
Splice1(s, i) == [j \in 1..(Len(s) - 1) |-> IF j < i THEN s[j] ELSE s[j + 1]]

(***************************************************************************)
(* Category ids.  An id is a string; IdChars gives its characters, which   *)
(* is what the format check of addCategory reads.                          *)
(***************************************************************************)
IdChars ==
    [basic     |-> <<"b", "a", "s", "i", "c">>,
     arrows    |-> <<"a", "r", "r", "o", "w", "s">>,
     flowchart |-> <<"f", "l", "o", "w", "c", "h", "a", "r", "t">>,
     callouts  |-> <<"c", "a", "l", "l", "o", "u", "t", "s">>,
     icons     |-> <<"i", "c", "o", "n", "s">>] @@
    ("my-set-2" :> <<"m", "y", "-", "s", "e", "t", "-", "2">>) @@
    ("My Set"   :> <<"M", "y", " ", "S", "e", "t">>) @@
    (""         :> <<>>)

CategoryIds == DOMAIN IdChars

LowerAlnumDash ==
    {"a", "b", "c", "d", "e", "f", "g", "h", "i", "j", "k", "l", "m", "n", "o",
     "p", "q", "r", "s", "t", "u", "v", "w", "x", "y", "z",
     "0", "1", "2", "3", "4", "5", "6", "7", "8", "9", "-"}

\* The format check without its anchors, /[a-z0-9-]+/: some character fits.
validIdUnanchored(id) ==
    \E i \in 1..Len(IdChars[id]) : IdChars[id][i] \in LowerAlnumDash

\* /^[a-z0-9-]+$/.test(id)
validId(id) ==
    /\ Len(IdChars[id]) >= 1
    /\ \A i \in 1..Len(IdChars[id]) : IdChars[id][i] \in LowerAlnumDash

CategoryNames == {"Icons", "Renamed"}

SeedCategories ==
    << [id |-> "basic",     name |-> "Basic Shapes"],
       [id |-> "arrows",    name |-> "Proposals"],
       [id |-> "flowchart", name |-> "Visuals"],
       [id |-> "callouts",  name |-> "Legal"] >>

(***************************************************************************)
(* Files.                                                                  *)
(***************************************************************************)
AbsentFile  == [kind |-> "absent", content |-> <<>>]
CorruptFile == [kind |-> "corrupt", content |-> <<>>]
NoFieldFile == [kind |-> "nofield", content |-> <<>>]
JsonFile(content) == [kind |-> "ok", content |-> content]

\* existsSync
existsSync(file) == file.kind # "absent"

(***************************************************************************)
(* The state the operations work on, as one record, so that a handler can  *)
(* chain several calls; Cur is the current state.  An operation yields an  *)
(* outcome: the state it leaves, whether it returned or raised, the error  *)
(* (type, the identifiers its message quotes, the count it quotes, whether *)
(* it carries the underlying cause, the path it names), the value returned *)
(* and the file primitives performed.                                      *)
(***************************************************************************)
Cur ==
    [categoriesFile     |-> categoriesFile,
     DEFAULT_CATEGORIES |-> DEFAULT_CATEGORIES,
     shapeFiles         |-> shapeFiles,
     assets             |-> assets,
     assetDirs          |-> assetDirs,
     marker             |-> marker]

NoErr == [type |-> "", ids |-> {}, count |-> -1, cause |-> FALSE, path |-> ""]
Err(type, ids, count, cause, path) ==
    [type |-> type, ids |-> ids, count |-> count, cause |-> cause, path |-> path]

Ok(st, ret, fx) == [st |-> st, ok |-> TRUE, err |-> NoErr, ret |-> ret, fx |-> fx]
Throw(st, err, fx) == [st |-> st, ok |-> FALSE, err |-> err, ret |-> 0, fx |-> fx]

(***************************************************************************)
(* Category store (categoryManager).                                       *)
(***************************************************************************)

\* A serialisation that keeps the ids only
stringifyIdsOnly(categories) ==
    [i \in 1..Len(categories) |->
        << <<"id", categories[i].id>>, <<"name", categories[i].id>> >>]

\* JSON.stringify({ categories }, null, 2): the text, as the list of the
\* objects written, each the list of its "key": value members in the order
\* of the properties of a CategoryConfig.
stringifyCategories(categories) ==
    [i \in 1..Len(categories) |->
        << <<"id", categories[i].id>>, <<"name", categories[i].name>> >>]

\* JSON.parse(content).categories of such a text
parseCategories(text) ==
    [i \in 1..Len(text) |->
        [id   |-> (CHOOSE m \in Range(text[i]) : m[1] = "id")[2],
         name |-> (CHOOSE m \in Range(text[i]) : m[1] = "name")[2]]]

\* saveCategories: overwrite categories.json (the content of an "ok" file is
\* what JSON.parse yields for the text written); a write error is re-thrown
\* as "Failed to save categories: <cause>".  The wrapper adds no path: the
\* message names the file only when the message of the cause does, as that
\* of a failed open does ("EACCES: permission denied, open '<path>'") and
\* that of a failed write need not ("ENOSPC: no space left on device, write").
saveCategories(st, categories, io) ==
    IF "writeCategories" \in io
    THEN Throw(st, Err("save-categories", {}, -1, TRUE, "categories.json"), {})
    ELSE IF "writeCategoriesNoSpace" \in io
    THEN Throw(st, Err("save-categories", {}, -1, TRUE, ""), {})
    ELSE Ok([st EXCEPT !.categoriesFile =
                 JsonFile(parseCategories(stringifyCategories(categories)))], 0,
            {<<"write", "categories.json">>})

\* A load that does not create the file it misses
loadCategoriesNoCreate(st, io) ==
    IF st.categoriesFile.kind = "ok"
    THEN Ok(st, [list |-> st.categoriesFile.content, aliased |-> FALSE], {})
    ELSE Ok(st, [list |-> st.DEFAULT_CATEGORIES, aliased |-> TRUE], {})

\* loadCategories: ret.list is the array returned, ret.aliased says that it is
\* the DEFAULT_CATEGORIES array itself (the code returns the module-level
\* array, not a copy).
loadCategories(st, io) ==
    IF ~existsSync(st.categoriesFile)
    THEN LET w == saveCategories(st, st.DEFAULT_CATEGORIES, io)
         IN  IF w.ok
             THEN Ok(w.st, [list |-> st.DEFAULT_CATEGORIES, aliased |-> TRUE], w.fx)
             ELSE w
    ELSE IF st.categoriesFile.kind = "ok"
    THEN Ok(st, [list |-> st.categoriesFile.content, aliased |-> FALSE], {})
    ELSE Ok(st, [list |-> st.DEFAULT_CATEGORIES, aliased |-> TRUE], {})

\* A mutation of the array loadCategories returned reaches DEFAULT_CATEGORIES
\* when the two are the same array.
Mutated(st, loaded, list) ==
    IF loaded.aliased THEN [st EXCEPT !.DEFAULT_CATEGORIES = list] ELSE st

\* getCategoryIds
getCategoryIds(st, io) ==
    LET l == loadCategories(st, io)
    IN  IF l.ok THEN Ok(l.st, [i \in 1..Len(l.ret.list) |-> l.ret.list[i].id], l.fx)
        ELSE l

\* saveCategories(loadCategories()), then loadCategories(): the round trip
\* of the store through its file; before is the list saved, after the list
\* the last load returns.
saveLoadedCategories(st, io) ==
    LET l == loadCategories(st, io) IN
    IF ~l.ok THEN l
    ELSE
    LET w == saveCategories(l.st, l.ret.list, io) IN
    IF ~w.ok THEN [w EXCEPT !.fx = l.fx \cup w.fx]
    ELSE
    LET r == loadCategories(w.st, io) IN
    IF ~r.ok THEN [r EXCEPT !.fx = l.fx \cup w.fx \cup r.fx]
    ELSE Ok(r.st, [before |-> l.ret.list, after |-> r.ret.list], l.fx \cup w.fx \cup r.fx)

\* getCategoryDisplayName: found?.name || categoryId
getCategoryDisplayName(st, categoryId, io) ==
    LET l == loadCategories(st, io) IN
    IF ~l.ok THEN l
    ELSE
    LET index == findIndexById(l.ret.list, categoryId) IN
    IF index # 0 /\ l.ret.list[index].name # ""
    THEN Ok(l.st, l.ret.list[index].name, l.fx)
    ELSE Ok(l.st, categoryId, l.fx)

\* getShapeCountInCategory: 0 for a missing or unparsable file
getShapeCountInCategory(st, categoryId) ==
    IF st.shapeFiles[categoryId].kind = "ok"
    THEN Len(st.shapeFiles[categoryId].content)
    ELSE 0

\* addCategory, the writing of the empty shapes file included
addCategory(st, id, name, io) ==
    IF ~validId(id)
    THEN Throw(st, Err("bad-id", {}, -1, FALSE, ""), {})
    ELSE
    LET l == loadCategories(st, io) IN
    IF ~l.ok THEN l
    ELSE IF \E i \in 1..Len(l.ret.list) : l.ret.list[i].id = id
    THEN Throw(l.st, Err("exists", {id}, -1, FALSE, ""), l.fx)
    ELSE
    LET pushed == Append(l.ret.list, [id |-> id, name |-> name])
        w == saveCategories(Mutated(l.st, l.ret, pushed), pushed, io)
    IN
    IF ~w.ok THEN [w EXCEPT !.fx = l.fx \cup w.fx]
    ELSE IF existsSync(w.st.shapeFiles[id])
    THEN Ok(w.st, 0, l.fx \cup w.fx)
    ELSE IF "writeShapes" \in io
    THEN Throw(w.st, Err("io", {}, -1, TRUE, ""), l.fx \cup w.fx)
    ELSE Ok([w.st EXCEPT !.shapeFiles[id] = JsonFile(<<>>)], 0,
            l.fx \cup w.fx \cup {<<"write", "shapes", id>>})

\* A rename that writes the new name into the id
renameCategoryId(st, categoryId, newName, io) ==
    LET l == loadCategories(st, io)
        index == findIndexById(l.ret.list, categoryId)
        renamed == [l.ret.list EXCEPT ![index].id = newName]
    IN  IF ~l.ok THEN l
        ELSE IF index = 0
        THEN Throw(l.st, Err("not-found", {categoryId}, -1, FALSE, ""), l.fx)
        ELSE saveCategories(Mutated(l.st, l.ret, renamed), renamed, io)

\* A rename that takes the entry out and appends it under its new name
renameCategoryMoveLast(st, categoryId, newName, io) ==
    LET l == loadCategories(st, io)
        index == findIndexById(l.ret.list, categoryId)
        renamed == Append(Splice1(l.ret.list, index), [id |-> categoryId, name |-> newName])
    IN  IF ~l.ok THEN l
        ELSE IF index = 0
        THEN Throw(l.st, Err("not-found", {categoryId}, -1, FALSE, ""), l.fx)
        ELSE saveCategories(Mutated(l.st, l.ret, renamed), renamed, io)

\* renameCategory
renameCategory(st, categoryId, newName, io) ==
    LET l == loadCategories(st, io) IN
    IF ~l.ok THEN l
    ELSE
    LET index == findIndexById(l.ret.list, categoryId) IN
    IF index = 0
    THEN Throw(l.st, Err("not-found", {categoryId}, -1, FALSE, ""), l.fx)
    ELSE
    LET renamed == [l.ret.list EXCEPT ![index].name = newName]
        w == saveCategories(Mutated(l.st, l.ret, renamed), renamed, io)
    IN  [w EXCEPT !.fx = l.fx \cup w.fx]

\* The emptiness test of deleteCategory off by one: shapeCount > 1.
hasShapesOffByOne(shapeCount) == shapeCount > 1

\* A deleteCategory that does not look at the count
hasShapesNever(shapeCount) == FALSE

\* if (shapeCount > 0) of deleteCategory
hasShapes(shapeCount) == shapeCount > 0

\* deleteCategory
deleteCategory(st, categoryId, io) ==
    LET l == loadCategories(st, io) IN
    IF ~l.ok THEN l
    ELSE
    LET index == findIndexById(l.ret.list, categoryId) IN
    IF index = 0
    THEN Throw(l.st, Err("not-found", {categoryId}, -1, FALSE, ""), l.fx)
    ELSE
    LET shapeCount == getShapeCountInCategory(l.st, categoryId) IN
    IF hasShapes(shapeCount)
    THEN Throw(l.st, Err("not-empty", {l.ret.list[index].name}, shapeCount, FALSE, ""), l.fx)
    ELSE
    LET spliced == Splice1(l.ret.list, index)
        w == saveCategories(Mutated(l.st, l.ret, spliced), spliced, io)
    IN  IF w.ok THEN Ok(w.st, TRUE, l.fx \cup w.fx)
        ELSE [w EXCEPT !.fx = l.fx \cup w.fx]

(***************************************************************************)
(* Shape repository (shapeSaver).  A shape record is a record with the     *)
(* fields id, name, category, preview and, once it is in the deck,         *)
(* deckSlide.                                                              *)
(***************************************************************************)
ShapeIds == {"s1", "s2", "s3"}
ShapeNames == {"arrow", "box", "Box"}

\* The collation key of a name under String.prototype.localeCompare (ICU root
\* collation: letters first, lower case before upper case at the third level)
\* and its place in UTF-16 code unit order ("B" is 66, "a" 97, "b" 98).
LocaleKey == [arrow |-> 1, box |-> 2, Box |-> 3]
CodeUnitKey == [Box |-> 1, arrow |-> 2, box |-> 3]

\* The comparison by code unit that the default sort would make.
compareCodeUnits(a, b) == CodeUnitKey[a] - CodeUnitKey[b]

\* a.localeCompare(b): negative, zero or positive
localeCompare(a, b) == LocaleKey[a] - LocaleKey[b]

\* Array.prototype.sort with the comparator of saveCategoryShapes; the sort
\* of V8 is stable: records that compare equal keep their order.
RECURSIVE InsertByName(_, _)
InsertByName(sorted, x) ==
    IF sorted = <<>> THEN <<x>>
    ELSE IF localeCompare(sorted[Len(sorted)].name, x.name) <= 0
    THEN Append(sorted, x)
    ELSE Append(InsertByName(SubSeq(sorted, 1, Len(sorted) - 1), x), sorted[Len(sorted)])

\* A sort that is not stable: a record goes before the ones it compares equal to.
RECURSIVE InsertByNameUnstable(_, _)
InsertByNameUnstable(sorted, x) ==
    IF sorted = <<>> THEN <<x>>
    ELSE IF localeCompare(sorted[Len(sorted)].name, x.name) < 0
    THEN Append(sorted, x)
    ELSE Append(InsertByNameUnstable(SubSeq(sorted, 1, Len(sorted) - 1), x), sorted[Len(sorted)])

\* One step of the sort: x goes after the records that compare lower or equal
insertSorted(sorted, x) == InsertByName(sorted, x)

RECURSIVE SortFrom(_, _, _)
SortFrom(shapes, i, acc) ==
    IF i > Len(shapes) THEN acc
    ELSE SortFrom(shapes, i + 1, insertSorted(acc, shapes[i]))

sortByName(shapes) == SortFrom(shapes, 1, <<>>)

\* loadCategoryShapes: [] for a missing or unparsable file
loadCategoryShapes(st, category) ==
    IF st.shapeFiles[category].kind = "ok" THEN st.shapeFiles[category].content ELSE <<>>

\* saveCategoryShapes: sort by name, write; a write error is re-thrown as
\* "Failed to save shapes to <category>.json at <path>: <cause>".
saveCategoryShapes(st, category, shapes, io) ==
    IF "writeShapes" \in io
    THEN Throw(st, Err("save-shapes", {category}, -1, TRUE, "shapes"), {})
    ELSE Ok([st EXCEPT !.shapeFiles[category] = JsonFile(sortByName(shapes))], 0,
            {<<"write", "shapes", category>>})

\* shapeExists
shapeExists(st, id, category) ==
    \E i \in 1..Len(loadCategoryShapes(st, category)) :
        loadCategoryShapes(st, category)[i].id = id

\* addShapeToLibrary
addShapeToLibrary(st, shape, io) ==
    LET shapes == loadCategoryShapes(st, shape.category)
        existingIndex == findIndexById(shapes, shape.id)
        updated == IF existingIndex # 0
                   THEN [shapes EXCEPT ![existingIndex] = shape]
                   ELSE Append(shapes, shape)
    IN  saveCategoryShapes(st, shape.category, updated, io)

\* The spread with the updates last: { ...shapes[index], id, category, ...updates }
mergeShapeUpdatesLast(existing, updates, id, category) ==
    [f \in DOMAIN existing \cup DOMAIN updates \cup {"id", "category"} |->
        IF f \in DOMAIN updates THEN updates[f]
        ELSE IF f = "id" THEN id
        ELSE IF f = "category" THEN category
        ELSE existing[f]]

\* The spread with the stored record last: { ...updates, ...shapes[index], id, category }
mergeShapeExistingLast(existing, updates, id, category) ==
    [f \in DOMAIN existing \cup DOMAIN updates \cup {"id", "category"} |->
        IF f = "id" THEN id
        ELSE IF f = "category" THEN category
        ELSE IF f \in DOMAIN existing THEN existing[f]
        ELSE updates[f]]

\* { ...shapes[index], ...updates, id, category }
mergeShape(existing, updates, id, category) ==
    [f \in DOMAIN existing \cup DOMAIN updates \cup {"id", "category"} |->
        IF f = "id" THEN id
        ELSE IF f = "category" THEN category
        ELSE IF f \in DOMAIN updates THEN updates[f]
        ELSE existing[f]]

\* updateShapeInLibrary
updateShapeInLibrary(st, id, category, updates, io) ==
    LET shapes == loadCategoryShapes(st, category)
        index == findIndexById(shapes, id)
    IN  IF index = 0
        THEN Throw(st, Err("shape-not-found", {id, category}, -1, FALSE, ""), {})
        ELSE saveCategoryShapes(st, category,
                 [shapes EXCEPT ![index] = mergeShape(shapes[index], updates, id, category)], io)

\* A removeShapeFromLibrary that deletes the preview file of the shape too
removeShapeAndPreview(st, id, category, io) ==
    LET shapes == loadCategoryShapes(st, category)
        filteredShapes == filterOutId(shapes, id)
    IN  IF Len(filteredShapes) = Len(shapes)
        THEN Throw(st, Err("shape-not-found", {id, category}, -1, FALSE, ""), {})
        ELSE saveCategoryShapes([st EXCEPT !.assets[<<category, id>>] = ""],
                                category, filteredShapes, io)

\* removeShapeFromLibrary
removeShapeFromLibrary(st, id, category, io) ==
    LET shapes == loadCategoryShapes(st, category)
        filteredShapes == filterOutId(shapes, id)
    IN  IF Len(filteredShapes) = Len(shapes)
        THEN Throw(st, Err("shape-not-found", {id, category}, -1, FALSE, ""), {})
        ELSE saveCategoryShapes(st, category, filteredShapes, io)

\* getShapeCounts with the empty categories left out of the result
getShapeCountsNonEmpty(st, io) ==
    LET ids == getCategoryIds(st, io) IN
    IF ~ids.ok THEN ids
    ELSE Ok(ids.st,
            [category \in {c \in Range(ids.ret) : Len(loadCategoryShapes(ids.st, c)) > 0} |->
                Len(loadCategoryShapes(ids.st, category))], ids.fx)

\* getShapeCounts: counts[category] = loadCategoryShapes(category).length
\* for each of getCategoryIds()
getShapeCounts(st, io) ==
    LET ids == getCategoryIds(st, io) IN
    IF ~ids.ok THEN ids
    ELSE Ok(ids.st,
            [category \in Range(ids.ret) |-> Len(loadCategoryShapes(ids.st, category))],
            ids.fx)

\* Object.values(counts).reduce((sum, count) => sum + count, 0)
RECURSIVE sumValues(_, _)
sumValues(counts, keys) ==
    IF keys = {} THEN 0
    ELSE LET k == CHOOSE x \in keys : TRUE
         IN  counts[k] + sumValues(counts, keys \ {k})

\* getTotalShapeCount
getTotalShapeCount(st, io) ==
    LET counts == getShapeCounts(st, io) IN
    IF ~counts.ok THEN counts
    ELSE Ok(counts.st, sumValues(counts.ret, DOMAIN counts.ret), counts.fx)

(***************************************************************************)
(* Preview asset manager (shapeSaver).  assets maps a path to the content  *)
(* of the file there: NoFile, or the id of the shape the image shows.      *)
(***************************************************************************)
NoFile == ""
PreviewBases == ShapeIds \cup {"placeholder"}
AssetPaths == CategoryIds \X PreviewBases

\* renameSync(from, to): succeeds unless the primitive fails or the target
\* directory is missing; the file leaves its old path for the new one.
renameSync(acc, from, to, io) ==
    IF "rename" \in io \/ to[1] \notin acc.assetDirs
    THEN [acc EXCEPT !.done = FALSE]
    ELSE [acc EXCEPT !.done = TRUE,
                     !.assets = [p \in AssetPaths |->
                                    IF p = to THEN acc.assets[from]
                                    ELSE IF p = from THEN NoFile
                                    ELSE acc.assets[p]],
                     !.fx = @ \cup {<<"rename", from[1], from[2], to[1], to[2]>>}]

\* A copy that completes the move: the source is removed ("try copy + delete").
copyThenUnlink(acc, from, to, io) ==
    IF "copy" \in io \/ to[1] \notin acc.assetDirs
    THEN [acc EXCEPT !.done = FALSE]
    ELSE [acc EXCEPT !.done = TRUE,
                     !.assets = [p \in AssetPaths |->
                                    IF p = to THEN acc.assets[from]
                                    ELSE IF p = from THEN NoFile
                                    ELSE acc.assets[p]],
                     !.fx = @ \cup {<<"copy", from[1], from[2], to[1], to[2]>>}]

\* copyFileSync(from, to): the source stays
copyFileSync(acc, from, to, io) ==
    IF "copy" \in io \/ to[1] \notin acc.assetDirs
    THEN [acc EXCEPT !.done = FALSE]
    ELSE [acc EXCEPT !.done = TRUE,
                     !.assets = [@ EXCEPT ![to] = acc.assets[from]],
                     !.fx = @ \cup {<<"copy", from[1], from[2], to[1], to[2]>>}]

\* The rename of both callers, with its fallback: try renameSync, then
\* copyFileSync; done says whether one of the two succeeded.
renameOrCopy(acc, from, to, io) ==
    LET r == renameSync(acc, from, to, io)
    IN  IF r.done THEN r ELSE copyFileSync(acc, from, to, io)

\* if (!existsSync(dir)) mkdirSync(dir, { recursive: true }): not guarded by
\* any try, so a failure of mkdirSync leaves the function.
ensureDir(acc, dir, io) ==
    IF dir \in acc.assetDirs THEN [acc EXCEPT !.done = TRUE]
    ELSE IF "mkdir" \in io THEN [acc EXCEPT !.done = FALSE]
    ELSE [acc EXCEPT !.done = TRUE,
                     !.assetDirs = @ \cup {dir},
                     !.fx = @ \cup {<<"mkdir", "assets", dir>>}]

Acc(st, fx) ==
    [assets |-> st.assets, assetDirs |-> st.assetDirs, count |-> 0, fx |-> fx, done |-> TRUE]
WithAcc(st, acc) == [st EXCEPT !.assets = acc.assets, !.assetDirs = acc.assetDirs]

\* The relocation as it was before the file was moved: the new path only.
movePreviewPathOnly(st, shape, oldCategory, newCategory, io) ==
    Ok(st, <<newCategory, shape.id>>, {})

\* movePreviewToCategory
movePreviewToCategory(st, shape, oldCategory, newCategory, io) ==
    LET oldPreviewPath == <<oldCategory, shape.id>>
        newPreviewPath == <<newCategory, shape.id>>
        d == ensureDir(Acc(st, {}), newCategory, io)
    IN  IF ~d.done
        THEN Throw(st, Err("io", {}, -1, TRUE, ""), {})
        ELSE IF d.assets[oldPreviewPath] # NoFile
        THEN LET m == renameOrCopy(d, oldPreviewPath, newPreviewPath, io)
             IN  Ok(WithAcc(st, m), newPreviewPath, m.fx)
        ELSE Ok(WithAcc(st, d), newPreviewPath, d.fx)

\* The innermost loop of repairOrphanedPreviews: look for <id>.png in the
\* folders of the other categories, in store order, and stop at the first
\* one that could be moved or copied to the expected path.
RECURSIVE searchOrphan(_, _, _, _, _, _)
searchOrphan(acc, categories, k, category, shape, io) ==
    IF k > Len(categories) THEN acc
    ELSE LET searchPath == <<categories[k], shape.id>> IN
         IF acc.assets[searchPath] # NoFile /\ categories[k] # category
         THEN LET m == renameOrCopy(acc, searchPath, shape.preview, io)
              IN  IF m.done THEN [m EXCEPT !.count = @ + 1]
                  ELSE searchOrphan(acc, categories, k + 1, category, shape, io)
         ELSE searchOrphan(acc, categories, k + 1, category, shape, io)

\* The loop over the shapes of one category
RECURSIVE repairShapes(_, _, _, _, _, _)
repairShapes(acc, categories, category, shapes, j, io) ==
    IF j > Len(shapes) THEN acc
    ELSE repairShapes(
             IF acc.assets[shapes[j].preview] = NoFile
             THEN searchOrphan(acc, categories, 1, category, shapes[j], io)
             ELSE acc,
             categories, category, shapes, j + 1, io)

\* The loop over the categories; done = FALSE when mkdirSync raised
RECURSIVE repairCategories(_, _, _, _, _)
repairCategories(acc, st, categories, i, io) ==
    IF i > Len(categories) THEN [acc EXCEPT !.done = TRUE]
    ELSE LET d == ensureDir(acc, categories[i], io) IN
         IF ~d.done THEN d
         ELSE repairCategories(
                  repairShapes(d, categories, categories[i],
                               loadCategoryShapes(st, categories[i]), 1, io),
                  st, categories, i + 1, io)

\* repairOrphanedPreviews
repairOrphanedPreviews(st, force, io) ==
    LET g == getCategoryIds(st, io) IN
    IF ~g.ok THEN g
    ELSE IF ~force /\ g.st.marker THEN Ok(g.st, 0, g.fx)
    ELSE
    LET r == repairCategories(Acc(g.st, g.fx), g.st, g.ret, 1, io) IN
    IF ~r.done THEN Throw(WithAcc(g.st, r), Err("io", {}, -1, TRUE, ""), r.fx)
    ELSE IF "writeMarker" \in io
    THEN Ok(WithAcc(g.st, r), r.count, r.fx)
    ELSE Ok([WithAcc(g.st, r) EXCEPT !.marker = TRUE], r.count,
            r.fx \cup {<<"write", ".preview_repair_done">>})

(***************************************************************************)
(* UI handlers.  A handler catches what the calls raise and reports it in  *)
(* a failure toast: ok is the success toast.                               *)
(***************************************************************************)

\* { ...a, ...b }
spread(a, b) == [f \in DOMAIN a \cup DOMAIN b |-> IF f \in DOMAIN b THEN b[f] ELSE a[f]]

\* values.tags.split(",").map((t) => t.trim()) for the tag strings entered
TagStrings == {"", "a, b"}
splitTags == ("" :> <<>>) @@ ("a, b" :> <<"a", "b">>)

\* EditShapeForm.handleSubmit
editShapeSubmit(st, shape, values, io) ==
    LET oldCategory == shape.category
        newCategory == values.category
        tags == IF values.tags # "" THEN splitTags[values.tags] ELSE <<>>
    IN
    IF oldCategory # newCategory
    THEN LET r == removeShapeFromLibrary(st, shape.id, oldCategory, io) IN
         IF ~r.ok THEN r
         ELSE
         LET m == movePreviewToCategory(r.st, shape, oldCategory, newCategory, io) IN
         IF ~m.ok THEN [m EXCEPT !.fx = r.fx \cup m.fx]
         ELSE
         LET updatedShape == spread(shape, [name |-> values.name, category |-> newCategory,
                                            tags |-> tags, preview |-> m.ret])
             a == addShapeToLibrary(m.st, updatedShape, io)
         IN  [a EXCEPT !.fx = r.fx \cup m.fx \cup a.fx]
    ELSE updateShapeInLibrary(st, shape.id, shape.category,
                              [name |-> values.name, tags |-> tags], io)

\* The try block of SaveForm.handleSubmit that stores the captured PNG: make
\* assets/<category>, copy the temporary PNG to <id>.png, set the preview
\* path; whatever fails in it is swallowed.
storeTempPng(st, updated, io) ==
    LET d == ensureDir(Acc(st, {}), updated.category, io) IN
    IF ~d.done \/ "copy" \in io THEN Ok(WithAcc(st, d), 0, d.fx)
    ELSE
    LET outPng == <<updated.category, updated.id>>
        copied == [WithAcc(st, d) EXCEPT !.assets[outPng] = updated.id]
        fx == d.fx \cup {<<"copy", "tmp", updated.id, outPng[1], outPng[2]>>}
        u == updateShapeInLibrary(copied, updated.id, updated.category,
                                  [preview |-> outPng], io)
    IN  Ok(u.st, 0, fx \cup u.fx)

\* SaveForm.handleSubmit: shape is the captured shape, tempPng says that the
\* extractor left a PNG, useLibraryDeck is the preference.
saveFormSubmit(st, shape, values, tempPng, useLibraryDeck, io) ==
    LET updated == spread(shape,
            [name |-> IF values.shapeName # "" THEN values.shapeName ELSE shape.name,
             category |-> values.category,
             tags |-> IF values.tags # "" THEN splitTags[values.tags] ELSE shape.tags,
             preview |-> <<values.category, "placeholder">>])
    IN
    IF shapeExists(st, updated.id, updated.category)
    THEN Throw(st, Err("shape-exists", {updated.id, updated.category}, -1, FALSE, ""), {})
    ELSE
    LET a == addShapeToLibrary(st, updated, io) IN
    IF ~a.ok THEN a
    ELSE
    LET p == IF tempPng THEN storeTempPng(a.st, updated, io) ELSE Ok(a.st, 0, {})
        k == IF useLibraryDeck
             THEN updateShapeInLibrary(p.st, updated.id, updated.category, [deckSlide |-> 1], io)
             ELSE Ok(p.st, 0, {})
    IN  Ok(k.st, <<"shapes", updated.category>>, a.fx \cup p.fx \cup k.fx)

\* The auto-save branch of CaptureShape.handleCapture: shapeInfo is the
\* mapped capture; the shape is stored at once, then the deck slide and the
\* captured PNG are recorded, each in a try block that swallows its failure.
handleCaptureAutoSave(st, shapeInfo, tempPng, useLibraryDeck, io) ==
    LET a == addShapeToLibrary(st, shapeInfo, io) IN
    IF ~a.ok THEN a
    ELSE
    LET k == IF useLibraryDeck
             THEN updateShapeInLibrary(a.st, shapeInfo.id, shapeInfo.category,
                                       [deckSlide |-> 1], io)
             ELSE Ok(a.st, 0, {})
        p == IF tempPng THEN storeTempPng(k.st, shapeInfo, io) ELSE Ok(k.st, 0, {})
    IN  Ok(p.st, <<"shapes", shapeInfo.category>>, a.fx \cup k.fx \cup p.fx)

(***************************************************************************)
(* Steps.  A step is one call of an exported function or one run of a UI   *)
(* handler; Do installs its outcome.                                       *)
(***************************************************************************)
Do(op, arg, out) ==
    /\ categoriesFile' = out.st.categoriesFile
    /\ DEFAULT_CATEGORIES' = out.st.DEFAULT_CATEGORIES
    /\ shapeFiles' = out.st.shapeFiles
    /\ assets' = out.st.assets
    /\ assetDirs' = out.st.assetDirs
    /\ marker' = out.st.marker
    /\ call' = [op |-> op, arg |-> arg, ok |-> out.ok, err |-> out.err,
                ret |-> out.ret, fx |-> out.fx]
    /\ UNCHANGED handlers

NoCall == [op |-> "none", arg |-> <<>>, ok |-> TRUE, err |-> NoErr, ret |-> 0, fx |-> {}]

\* The list loadCategories returns for a given file and defaults array
StoreListOf(file, defaults) == IF file.kind = "ok" THEN file.content ELSE defaults
StoreList == StoreListOf(categoriesFile, DEFAULT_CATEGORIES)
IdsOf(list) == {list[i].id : i \in 1..Len(list)}

LoadCategories(ios) ==
    \E io \in ios :
        LET out == loadCategories(Cur, io)
        IN  Do("loadCategories", <<>>, [out EXCEPT !.ret = IF out.ok THEN out.ret.list ELSE <<>>])

AddCategory(ids, names, ios) ==
    \E id \in ids, name \in names, io \in ios :
        LET out == addCategory(Cur, id, name, io)
        IN  /\ out.ok => Len(StoreList) < MaxCategories
            /\ Do("addCategory", [id |-> id, name |-> name], out)

RenameCategory(ids, names, ios) ==
    \E id \in ids, name \in names, io \in ios :
        Do("renameCategory", [id |-> id, name |-> name],
           renameCategory(Cur, id, name, io))

DeleteCategory(ids, ios) ==
    \E id \in ids, io \in ios :
        Do("deleteCategory", [id |-> id], deleteCategory(Cur, id, io))

SaveLoadedCategories(ios) ==
    \E io \in ios :
        Do("saveCategories(loadCategories())", <<>>, saveLoadedCategories(Cur, io))

GetCategoryDisplayName(ids, ios) ==
    \E id \in ids, io \in ios :
        Do("getCategoryDisplayName", [id |-> id], getCategoryDisplayName(Cur, id, io))

GetShapeCountInCategory(ids) ==
    \E id \in ids :
        Do("getShapeCountInCategory", [id |-> id],
           Ok(Cur, getShapeCountInCategory(Cur, id), {}))

AddShapeToLibrary(shapes, ios) ==
    \E shape \in shapes, io \in ios :
        LET out == addShapeToLibrary(Cur, shape, io)
        IN  /\ out.ok => Len(out.st.shapeFiles[shape.category].content) <= MaxShapesPerFile
            /\ Do("addShapeToLibrary", [shape |-> shape], out)

UpdateShapeInLibrary(ids, categories, updates, ios) ==
    \E id \in ids, category \in categories, u \in updates, io \in ios :
        Do("updateShapeInLibrary", [id |-> id, category |-> category, updates |-> u],
           updateShapeInLibrary(Cur, id, category, u, io))

RemoveShapeFromLibrary(ids, categories, ios) ==
    \E id \in ids, category \in categories, io \in ios :
        Do("removeShapeFromLibrary", [id |-> id, category |-> category],
           removeShapeFromLibrary(Cur, id, category, io))

GetShapeCounts(ios) ==
    \E io \in ios : Do("getShapeCounts", <<>>, getShapeCounts(Cur, io))

GetTotalShapeCount(ios) ==
    \E io \in ios : Do("getTotalShapeCount", <<>>, getTotalShapeCount(Cur, io))

MovePreviewToCategory(shapes, categories, ios) ==
    \E shape \in shapes, old \in categories, new \in categories, io \in ios :
        Do("movePreviewToCategory",
           [shape |-> shape, oldCategory |-> old, newCategory |-> new],
           movePreviewToCategory(Cur, shape, old, new, io))

RepairOrphanedPreviews(ios) ==
    \E force \in BOOLEAN, io \in ios :
        Do("repairOrphanedPreviews", [force |-> force],
           repairOrphanedPreviews(Cur, force, io))

EditShapeSubmit(categories, names, tagStrings, ios) ==
    \E old \in categories, new \in categories, name \in names, tags \in tagStrings, io \in ios :
        /\ shapeFiles[old].kind = "ok"
        /\ \E i \in 1..Len(shapeFiles[old].content) :
               LET shape == shapeFiles[old].content[i]
                   values == [name |-> name, category |-> new, tags |-> tags]
                   out == editShapeSubmit(Cur, shape, values, io)
               IN  /\ out.ok => Len(out.st.shapeFiles[new].content) <= MaxShapesPerFile
                   /\ Do("EditShapeForm.handleSubmit", [shape |-> shape, values |-> values], out)

SaveFormSubmit(captured, categories, pngs, decks, ios) ==
    \E shape \in captured, category \in categories, tempPng \in pngs,
       useLibraryDeck \in decks, io \in ios :
        LET values == [shapeName |-> "", category |-> category, tags |-> ""]
            out == saveFormSubmit(Cur, shape, values, tempPng, useLibraryDeck, io)
        IN  /\ out.ok => Len(out.st.shapeFiles[category].content) <= MaxShapesPerFile
            /\ Do("SaveForm.handleSubmit",
                  [shape |-> shape, values |-> values, tempPng |-> tempPng,
                   useLibraryDeck |-> useLibraryDeck], out)

HandleCaptureAutoSave(captured, pngs, decks, ios) ==
    \E shapeInfo \in captured, tempPng \in pngs, useLibraryDeck \in decks, io \in ios :
        LET out == handleCaptureAutoSave(Cur, shapeInfo, tempPng, useLibraryDeck, io)
        IN  /\ out.ok => Len(out.st.shapeFiles[shapeInfo.category].content) <= MaxShapesPerFile
            /\ Do("CaptureShape.handleCapture",
                  [shape |-> shapeInfo, tempPng |-> tempPng,
                   useLibraryDeck |-> useLibraryDeck], out)

(***************************************************************************)
(* The category store on a reliable file system, with shapes coming and    *)
(* going in two category files.                                            *)
(***************************************************************************)
Reliable == {{}}

EmptyAssets == [p \in AssetPaths |-> NoFile]
Shape(id, name, category, preview) ==
    [id |-> id, name |-> name, category |-> category, tags |-> <<>>, preview |-> preview]

\* A UI handler is an async function: it runs from one await to the next
\* without interruption and is suspended at the await, where other handlers
\* run.  A suspended handler is a record: the handler (kind), the await it
\* is suspended at (pc), the shape and the form values it was invoked with,
\* and the preview path it computed.  Three fields record its history:
\* wrote (it has written a file), foreign (another handler wrote a file
\* after that) and raced (it was in flight together with another edit of
\* the same shape: "update" when both keep the category, "move" otherwise).
Slots == 1..MaxHandlers
NoShape == Shape("", "", "", <<"", "">>)
NoValues == [name |-> "", category |-> "", tags |-> ""]
Idle == [kind |-> "idle", pc |-> "idle", shape |-> NoShape, values |-> NoValues,
         preview |-> <<"", "">>, wrote |-> FALSE, foreign |-> FALSE, raced |-> ""]
NoHandlers == [k \in Slots |-> Idle]

CatSpecShapes == {Shape(id, "box", c, <<c, id>>) : id \in {"s1", "s2"}, c \in {"basic", "icons"}}

InitCategories ==
    /\ categoriesFile \in {AbsentFile, CorruptFile, NoFieldFile, JsonFile(SeedCategories)}
    /\ DEFAULT_CATEGORIES = SeedCategories
    /\ \E basic \in {AbsentFile, CorruptFile, JsonFile(<<>>)} :
           shapeFiles = [c \in CategoryIds |-> IF c = "basic" THEN basic ELSE AbsentFile]
    /\ assets = EmptyAssets
    /\ assetDirs = {}
    /\ marker = FALSE
    /\ call = NoCall
    /\ handlers = NoHandlers

NextCategories ==
    \/ LoadCategories(Reliable)
    \/ AddCategory({"icons", "basic", "My Set", ""}, {"Icons"}, Reliable)
    \/ RenameCategory({"basic", "icons"}, {"Renamed"}, Reliable)
    \/ DeleteCategory({"basic", "icons"}, Reliable)
    \/ AddShapeToLibrary(CatSpecShapes, Reliable)
    \/ RemoveShapeFromLibrary({"s1", "s2"}, {"basic", "icons"}, Reliable)

SpecCategories == InitCategories /\ [][NextCategories]_vars

(***************************************************************************)
(* The category store when a write may fail: of categories.json at its     *)
(* open or while its data is written, or of the new shapes file.           *)
(***************************************************************************)
CategoryFaults == {{}, {"writeCategories"}, {"writeCategoriesNoSpace"}, {"writeShapes"}}

NextCategoriesIO ==
    \/ LoadCategories(CategoryFaults)
    \/ AddCategory({"icons", "My Set"}, {"Icons"}, CategoryFaults)
    \/ RenameCategory({"basic", "icons"}, {"Renamed"}, CategoryFaults)
    \/ DeleteCategory({"basic", "icons"}, CategoryFaults)
    \/ GetCategoryDisplayName({"basic", "icons"}, CategoryFaults)
    \/ GetShapeCountInCategory({"basic", "icons"})
    \/ SaveLoadedCategories(CategoryFaults)

SpecCategoriesIO == InitCategories /\ [][NextCategoriesIO]_vars

(***************************************************************************)
(* The shape repository on a reliable file system: one category file,      *)
(* records under three ids and three names, updates of one or more fields. *)
(***************************************************************************)
RepoShapes == {Shape(id, name, "basic", <<"basic", id>>) : id \in ShapeIds, name \in ShapeNames}

RepoUpdates ==
    {[name |-> n] : n \in ShapeNames} \cup
    {[deckSlide |-> 1],
     [id |-> "s2", category |-> "arrows", name |-> "arrow", preview |-> <<"arrows", "s2">>]}

InitShapes ==
    /\ categoriesFile = JsonFile(SeedCategories)
    /\ DEFAULT_CATEGORIES = SeedCategories
    /\ \E basic \in {AbsentFile, CorruptFile, JsonFile(<<>>)} :
           shapeFiles = [c \in CategoryIds |-> IF c = "basic" THEN basic ELSE AbsentFile]
    /\ assets = EmptyAssets
    /\ assetDirs = {}
    /\ marker = FALSE
    /\ call = NoCall
    /\ handlers = NoHandlers

NextShapes ==
    \/ AddShapeToLibrary(RepoShapes, Reliable)
    \/ UpdateShapeInLibrary(ShapeIds, {"basic"}, RepoUpdates, Reliable)
    \/ RemoveShapeFromLibrary(ShapeIds, {"basic"}, Reliable)

SpecShapes == InitShapes /\ [][NextShapes]_vars

(***************************************************************************)
(* The preview asset manager with the handlers that create, move and       *)
(* delete shapes, over two of the seed categories and one shape id that    *)
(* may be saved in each of them.  The library starts empty; the marker may *)
(* be there from a repair run by a release that did not yet keep           *)
(* categories.json in the library folder.  SpecPreviews runs on a reliable *)
(* file system; in SpecPreviewsIO a call may run with one failing file     *)
(* operation: mkdirSync, renameSync, renameSync and copyFileSync, the      *)
(* write of the marker or the write of categories.json.                    *)
(***************************************************************************)
PreviewCategories == {"basic", "arrows"}
Captured == {Shape("s1", "box", "basic", <<"basic", "s1">>)}
Unreliable == {{}, {"mkdir"}, {"rename"}, {"rename", "copy"}, {"writeMarker"}, {"writeCategories"}}

InitPreviews ==
    /\ categoriesFile \in {AbsentFile, JsonFile(SeedCategories)}
    /\ DEFAULT_CATEGORIES = SeedCategories
    /\ shapeFiles = [c \in CategoryIds |-> AbsentFile]
    /\ assets = EmptyAssets
    /\ assetDirs = {}
    /\ marker \in BOOLEAN
    /\ call = NoCall
    /\ handlers = NoHandlers

PreviewSteps(ios) ==
    \/ SaveFormSubmit(Captured, PreviewCategories, BOOLEAN, {FALSE}, ios)
    \/ EditShapeSubmit(PreviewCategories, {"box"}, {""}, ios)
    \/ RemoveShapeFromLibrary({"s1"}, PreviewCategories, ios)
    \/ MovePreviewToCategory(Captured, PreviewCategories, ios)
    \/ RepairOrphanedPreviews(ios)

NextPreviews == PreviewSteps(Reliable)
NextPreviewsIO == PreviewSteps(Unreliable)

SpecPreviews == InitPreviews /\ [][NextPreviews]_vars
SpecPreviewsIO == InitPreviews /\ [][NextPreviewsIO]_vars

(***************************************************************************)
(* The shape repository with the category change of the edit form, on a    *)
(* reliable file system: two ids, two categories, updates that carry       *)
(* another id and category.                                                *)
(***************************************************************************)
LibraryIds == {"s1", "s2"}
LibraryShapes ==
    {Shape(id, "box", c, <<c, id>>) : id \in LibraryIds, c \in PreviewCategories}
LibraryUpdates == {[name |-> "arrow"], [id |-> "s2", category |-> "arrows"]}

InitLibrary ==
    /\ categoriesFile = JsonFile(SeedCategories)
    /\ DEFAULT_CATEGORIES = SeedCategories
    /\ \E basic \in {AbsentFile, CorruptFile,
                     JsonFile(<<Shape("s1", "box", "basic", <<"basic", "s1">>),
                                Shape("s2", "box", "basic", <<"basic", "s2">>)>>)} :
           /\ shapeFiles = [c \in CategoryIds |-> IF c = "basic" THEN basic ELSE AbsentFile]
           /\ assets = IF basic.kind = "ok"
                       THEN [EmptyAssets EXCEPT ![<<"basic", "s1">>] = "s1"]
                       ELSE EmptyAssets
           /\ assetDirs = IF basic.kind = "ok" THEN {"basic"} ELSE {}
    /\ marker = FALSE
    /\ call = NoCall
    /\ handlers = NoHandlers

NextLibrary ==
    \/ AddShapeToLibrary(LibraryShapes, Reliable)
    \/ UpdateShapeInLibrary(LibraryIds, PreviewCategories, LibraryUpdates, Reliable)
    \/ RemoveShapeFromLibrary(LibraryIds, PreviewCategories, Reliable)
    \/ EditShapeSubmit(PreviewCategories, {"box"}, {""}, Reliable)

SpecLibrary == InitLibrary /\ [][NextLibrary]_vars

(***************************************************************************)
(* The statistics of the library: categories and shapes come and go on a   *)
(* reliable file system, and the counts are taken in between.              *)
(***************************************************************************)
NextCounts ==
    \/ AddCategory({"icons"}, {"Icons"}, Reliable)
    \/ DeleteCategory({"basic", "icons"}, Reliable)
    \/ AddShapeToLibrary(CatSpecShapes, Reliable)
    \/ RemoveShapeFromLibrary({"s1", "s2"}, {"basic", "icons"}, Reliable)
    \/ GetShapeCounts(Reliable)
    \/ GetTotalShapeCount(Reliable)
    \/ GetShapeCountInCategory({"basic", "icons"})

SpecCounts == InitCategories /\ [][NextCounts]_vars

(***************************************************************************)
(* The two save paths of a capture, the Save form and the auto-save, on a  *)
(* reliable file system; saved shapes are edited and deleted in between.   *)
(***************************************************************************)
NextCapture ==
    \/ SaveFormSubmit(Captured, PreviewCategories, BOOLEAN, BOOLEAN, Reliable)
    \/ HandleCaptureAutoSave(Captured, BOOLEAN, BOOLEAN, Reliable)
    \/ EditShapeSubmit(PreviewCategories, {"box", "arrow"}, {""}, Reliable)
    \/ RemoveShapeFromLibrary({"s1"}, PreviewCategories, Reliable)

SpecCapture == InitPreviews /\ [][NextCapture]_vars

(***************************************************************************)
(* The UI handlers as async functions.  Invoking a handler runs it to its  *)
(* first await; resuming it runs it from the await it is suspended at to   *)
(* the next one, or to its end.  Nothing in the handlers keeps a second    *)
(* handler from being invoked or resumed while one is suspended.           *)
(***************************************************************************)
InFlight(h) == h.kind # "idle"

\* A JSON file of the library was written
Writes(fx) == \E f \in fx : f[1] = "write"

MovesShape(h) == h.shape.category # h.values.category

\* How two edit handlers in flight together race: on the same record?
Race(a, b) ==
    IF /\ a.kind = "EditShapeForm.handleSubmit"
       /\ b.kind = "EditShapeForm.handleSubmit"
       /\ a.shape.id = b.shape.id
       /\ a.shape.category = b.shape.category
    THEN IF MovesShape(a) \/ MovesShape(b) THEN "move" ELSE "update"
    ELSE ""

Stronger(x, y) == IF "move" \in {x, y} THEN "move" ELSE IF "update" \in {x, y} THEN "update" ELSE ""

RaceOf(h, others) ==
    IF \E j \in Slots : Race(h, others[j]) = "move" THEN "move"
    ELSE IF \E j \in Slots : Race(h, others[j]) = "update" THEN "update"
    ELSE ""

\* The handler h is invoked in slot k, the lowest free one, and runs to its
\* first await without touching a file.
Invoke(k, h) ==
    /\ ~InFlight(handlers[k])
    /\ \A j \in Slots : j < k => InFlight(handlers[j])
    /\ handlers' = [j \in Slots |->
                       IF j = k THEN [h EXCEPT !.raced = RaceOf(h, handlers)]
                       ELSE [handlers[j] EXCEPT !.raced = Stronger(@, Race(h, handlers[j]))]]
    /\ call' = [op |-> "invoke",
                arg |-> [slot |-> k, kind |-> h.kind, pc |-> "invoke",
                         raced |-> RaceOf(h, handlers)],
                ok |-> TRUE, err |-> NoErr, ret |-> 0, fx |-> {}]
    /\ UNCHANGED <<categoriesFile, DEFAULT_CATEGORIES, shapeFiles, assets, assetDirs, marker>>

\* The handler of slot k is resumed: it runs the calls whose outcome is out
\* and is then suspended at the await next, or returns (next = "end").
Resume(k, out, next, preview) ==
    LET h == handlers[k] IN
    /\ categoriesFile' = out.st.categoriesFile
    /\ DEFAULT_CATEGORIES' = out.st.DEFAULT_CATEGORIES
    /\ shapeFiles' = out.st.shapeFiles
    /\ assets' = out.st.assets
    /\ assetDirs' = out.st.assetDirs
    /\ marker' = out.st.marker
    /\ handlers' = [j \in Slots |->
                       IF j = k
                       THEN IF next = "end" THEN Idle
                            ELSE [h EXCEPT !.pc = next, !.preview = preview,
                                           !.wrote = @ \/ Writes(out.fx)]
                       ELSE IF handlers[j].wrote /\ Writes(out.fx)
                            THEN [handlers[j] EXCEPT !.foreign = TRUE]
                            ELSE handlers[j]]
    /\ call' = [op |-> "resume",
                arg |-> [slot |-> k, kind |-> h.kind, pc |-> h.pc, raced |-> h.raced],
                ok |-> out.ok, err |-> out.err, ret |-> 0, fx |-> out.fx]

\* EditShapeForm.handleSubmit is invoked on a shape of the list with a
\* category of the dropdown, which lists loadCategories(): await showToast
InvokeEdit(categories, names) ==
    \E k \in Slots, old \in categories, new \in categories \cap IdsOf(StoreList),
       name \in names :
        /\ shapeFiles[old].kind = "ok"
        /\ \E i \in 1..Len(shapeFiles[old].content) :
               Invoke(k, [Idle EXCEPT !.kind = "EditShapeForm.handleSubmit", !.pc = "toast",
                                      !.shape = shapeFiles[old].content[i],
                                      !.values = [name |-> name, category |-> new, tags |-> ""]])

\* EditShapeForm.handleSubmit from await to await: the remove, then
\* await import, the move of the preview, then await import, the add; or
\* the update when the category stays.
ResumeEdit(ios) ==
    \E k \in Slots, io \in ios :
        LET h == handlers[k]
            shape == h.shape
            oldCategory == shape.category
            newCategory == h.values.category
            tags == IF h.values.tags # "" THEN splitTags[h.values.tags] ELSE <<>>
        IN  /\ h.kind = "EditShapeForm.handleSubmit"
            /\ IF h.pc = "toast" /\ oldCategory # newCategory
               THEN LET r == removeShapeFromLibrary(Cur, shape.id, oldCategory, io)
                    IN  Resume(k, r, IF r.ok THEN "import movePreviewToCategory" ELSE "end",
                               h.preview)
               ELSE IF h.pc = "toast"
               THEN Resume(k, updateShapeInLibrary(Cur, shape.id, shape.category,
                                  [name |-> h.values.name, tags |-> tags], io),
                           "end", h.preview)
               ELSE IF h.pc = "import movePreviewToCategory"
               THEN LET m == movePreviewToCategory(Cur, shape, oldCategory, newCategory, io)
                    IN  Resume(k, m, IF m.ok THEN "import addShapeToLibrary" ELSE "end",
                               IF m.ok THEN m.ret ELSE h.preview)
               ELSE LET updatedShape == spread(shape,
                            [name |-> h.values.name, category |-> newCategory,
                             tags |-> tags, preview |-> h.preview])
                    IN  Resume(k, addShapeToLibrary(Cur, updatedShape, io), "end", h.preview)

\* SaveForm.handleSubmit is invoked with a category of the dropdown, which
\* lists loadCategories(): await showToast
InvokeSave(captured, categories) ==
    \E k \in Slots, shape \in captured, category \in categories \cap IdsOf(StoreList) :
        Invoke(k, [Idle EXCEPT !.kind = "SaveForm.handleSubmit", !.pc = "toast",
                               !.shape = shape,
                               !.values = [name |-> "", category |-> category, tags |-> ""]])

\* SaveForm.handleSubmit from await to await, with the preference
\* useLibraryDeck on and no captured PNG: the existence check and the add,
\* then the awaits of the preview and deck tooling, then the update that
\* records the deck slide, whose failure is swallowed.
ResumeSave(ios) ==
    \E k \in Slots, io \in ios :
        LET h == handlers[k]
            updated == spread(h.shape,
                [name |-> IF h.values.name # "" THEN h.values.name ELSE h.shape.name,
                 category |-> h.values.category,
                 tags |-> IF h.values.tags # "" THEN splitTags[h.values.tags] ELSE h.shape.tags,
                 preview |-> <<h.values.category, "placeholder">>])
        IN  /\ h.kind = "SaveForm.handleSubmit"
            /\ IF h.pc = "toast"
               THEN IF shapeExists(Cur, updated.id, updated.category)
                    THEN Resume(k, Throw(Cur, Err("shape-exists", {updated.id, updated.category},
                                                  -1, FALSE, ""), {}), "end", h.preview)
                    ELSE LET a == addShapeToLibrary(Cur, updated, io)
                         IN  Resume(k, a, IF a.ok THEN "addShapeToDeckFromPptx" ELSE "end",
                                    h.preview)
               ELSE LET u == updateShapeInLibrary(Cur, updated.id, updated.category,
                                                  [deckSlide |-> 1], io)
                    IN  Resume(k, Ok(u.st, 0, u.fx), "end", h.preview)

\* handleDeleteCategory is invoked on a category of the list: the count
\* check, then await confirmAlert; a category that holds shapes is refused
\* at once.
InvokeDeleteCategory(ids) ==
    \E k \in Slots, id \in ids \cap IdsOf(StoreList) :
        LET h == [Idle EXCEPT !.kind = "handleDeleteCategory", !.pc = "confirmAlert",
                              !.values = [name |-> "", category |-> id, tags |-> ""]]
        IN  IF getShapeCountInCategory(Cur, id) > 0
            THEN /\ ~InFlight(handlers[k])
                 /\ \A j \in Slots : j < k => InFlight(handlers[j])
                 /\ call' = [op |-> "invoke",
                             arg |-> [slot |-> k, kind |-> h.kind, pc |-> "invoke",
                                      raced |-> ""],
                             ok |-> FALSE,
                             err |-> Err("not-empty", {id}, getShapeCountInCategory(Cur, id),
                                         FALSE, ""),
                             ret |-> 0, fx |-> {}]
                 /\ UNCHANGED <<categoriesFile, DEFAULT_CATEGORIES, shapeFiles, assets,
                                assetDirs, marker, handlers>>
            ELSE Invoke(k, h)

\* handleDeleteCategory from await to await: the answer to the dialog,
\* then await showToast, then deleteCategory.
ResumeDeleteCategory(ios) ==
    \E k \in Slots, io \in ios, confirmed \in BOOLEAN :
        LET h == handlers[k] IN
        /\ h.kind = "handleDeleteCategory"
        /\ IF h.pc = "confirmAlert"
           THEN Resume(k, Ok(Cur, 0, {}), IF confirmed THEN "toast" ELSE "end", h.preview)
           ELSE /\ confirmed
                /\ Resume(k, deleteCategory(Cur, h.values.category, io), "end", h.preview)

InitAsync ==
    /\ categoriesFile = JsonFile(SeedCategories)
    /\ DEFAULT_CATEGORIES = SeedCategories
    /\ shapeFiles = [c \in CategoryIds |-> AbsentFile]
    /\ assets = EmptyAssets
    /\ assetDirs = {}
    /\ marker = FALSE
    /\ call = NoCall
    /\ handlers = NoHandlers

NextAsync ==
    \/ InvokeSave(Captured, PreviewCategories)
    \/ ResumeSave(Reliable)
    \/ InvokeEdit(PreviewCategories, {"box"})
    \/ ResumeEdit(Reliable)
    \/ InvokeDeleteCategory(PreviewCategories)
    \/ ResumeDeleteCategory(Reliable)

SpecAsync == InitAsync /\ [][NextAsync]_vars

(***************************************************************************)
(* Edits of one shape, submitted while an earlier edit is still suspended. *)
(***************************************************************************)
InitEdits ==
    /\ categoriesFile = JsonFile(SeedCategories)
    /\ DEFAULT_CATEGORIES = SeedCategories
    /\ shapeFiles = [c \in CategoryIds |->
                        IF c = "basic"
                        THEN JsonFile(<<Shape("s1", "box", "basic", <<"basic", "s1">>)>>)
                        ELSE AbsentFile]
    /\ assets = [EmptyAssets EXCEPT ![<<"basic", "s1">>] = "s1"]
    /\ assetDirs = {"basic"}
    /\ marker = FALSE
    /\ call = NoCall
    /\ handlers = NoHandlers

NextEdits ==
    \/ InvokeEdit(PreviewCategories, {"box", "arrow"})
    \/ ResumeEdit(Reliable)

SpecEdits == InitEdits /\ [][NextEdits]_vars

(***************************************************************************)
(* Properties of the category store.                                       *)
(***************************************************************************)

\* C1: for a category C of the store, deleteCategory(C) returns exactly when
\* getShapeCountInCategory(C) is 0 at the call, and then C is gone from
\* categories.json; with n > 0 shapes it raises the not-empty error quoting n
\* and the category list is the one it was.
C1_DeleteIffEmpty ==
    [][(call'.op = "deleteCategory" /\ call'.arg.id \in IdsOf(StoreList)) =>
        LET n == getShapeCountInCategory(Cur, call'.arg.id) IN
        /\ call'.ok <=> n = 0
        /\ call'.ok =>
              /\ categoriesFile'.kind = "ok"
              /\ call'.arg.id \notin IdsOf(categoriesFile'.content)
        /\ ~call'.ok =>
              /\ call'.err.type = "not-empty"
              /\ call'.err.count = n
              /\ StoreListOf(categoriesFile', DEFAULT_CATEGORIES') = StoreList]_vars

\* C1, its case: a delete of a category of the store that was refused with a
\* message quoting one shape, the category still being in the store.
C1_Witness ==
    /\ call.op = "deleteCategory"
    /\ ~call.ok
    /\ call.err.type = "not-empty"
    /\ call.err.count = 1
    /\ call.arg.id \in IdsOf(StoreList)

\* The pattern ^[a-z0-9-]+$ of the claims: one or more characters, each a
\* lower-case letter, a digit or a dash.
MatchesSlugPattern(id) ==
    /\ id \in DOMAIN IdChars
    /\ IdChars[id] # <<>>
    /\ Range(IdChars[id]) \subseteq LowerAlnumDash

\* C2 as stated: addCategory(id, name) raises exactly when the id fails the
\* format check or is in the store, and then the category list is unchanged;
\* otherwise the list is the old one with the new entry appended and
\* shapes/<id>.json holds an empty array.
C2_AddAsStated ==
    [][call'.op = "addCategory" =>
        LET id == call'.arg.id IN
        /\ ~call'.ok <=> (~MatchesSlugPattern(id) \/ id \in IdsOf(StoreList))
        /\ ~call'.ok => StoreListOf(categoriesFile', DEFAULT_CATEGORIES') = StoreList
        /\ call'.ok =>
              /\ StoreListOf(categoriesFile', DEFAULT_CATEGORIES')
                    = Append(StoreList, [id |-> id, name |-> call'.arg.name])
              /\ shapeFiles'[id] = JsonFile(<<>>)]_vars

\* C2, amended: as above, but shapes/<id>.json is created empty only when it
\* was absent; a file already there (left by shapes saved under that id while
\* it was no category, or unparsable) is kept as it is.  A refused call leaves
\* the list unchanged and writes categories.json only to create it with the
\* defaults when it was absent.
C2_AddKeepsExistingShapes ==
    [][call'.op = "addCategory" =>
        LET id == call'.arg.id IN
        /\ ~call'.ok <=> (~MatchesSlugPattern(id) \/ id \in IdsOf(StoreList))
        /\ ~call'.ok =>
              /\ StoreListOf(categoriesFile', DEFAULT_CATEGORIES') = StoreList
              /\ shapeFiles' = shapeFiles
              /\ \/ categoriesFile' = categoriesFile
                 \/ /\ categoriesFile = AbsentFile
                    /\ MatchesSlugPattern(id)
                    /\ categoriesFile' = JsonFile(DEFAULT_CATEGORIES)
        /\ call'.ok =>
              /\ categoriesFile' = JsonFile(Append(StoreList, [id |-> id, name |-> call'.arg.name]))
              /\ shapeFiles'[id] = IF existsSync(shapeFiles[id]) THEN shapeFiles[id]
                                   ELSE JsonFile(<<>>)]_vars

\* C2, its case: a category was just added whose shapes file already held a
\* record.
C2_Witness ==
    /\ call.op = "addCategory"
    /\ call.ok
    /\ call.arg.id \in IdsOf(StoreList)
    /\ shapeFiles[call.arg.id].kind = "ok"
    /\ Len(shapeFiles[call.arg.id].content) > 0

(***************************************************************************)
(* Properties of the shape repository.                                     *)
(***************************************************************************)

\* The records of a category file that carry the given id
RecordsWithId(file, id) == {i \in 1..Len(file.content) : file.content[i].id = id}
RecordWithId(file, id) == file.content[CHOOSE i \in RecordsWithId(file, id) : TRUE]

\* C3: a successful updateShapeInLibrary(id, category, updates) leaves one
\* record with that id, whose id and category are the ones the stored record
\* had, whatever id or category the updates carry; every other field of the
\* updates has the value supplied, every field not supplied keeps its value.
C3_UpdatePinsIdentity ==
    [][(call'.op = "updateShapeInLibrary" /\ call'.ok) =>
        LET id == call'.arg.id
            u == call'.arg.updates
            old == RecordWithId(shapeFiles[call'.arg.category], id)
            new == RecordWithId(shapeFiles'[call'.arg.category], id)
        IN  /\ Cardinality(RecordsWithId(shapeFiles'[call'.arg.category], id)) = 1
            /\ new.id = old.id
            /\ new.category = old.category
            /\ DOMAIN new = DOMAIN old \cup DOMAIN u
            /\ \A f \in DOMAIN new \ {"id", "category"} :
                   new[f] = IF f \in DOMAIN u THEN u[f] ELSE old[f]]_vars

\* C3, its case: an update that carried another id and another category
\* went through.
C3_Witness ==
    /\ call.op = "updateShapeInLibrary"
    /\ call.ok
    /\ "id" \in DOMAIN call.arg.updates
    /\ call.arg.updates.id # call.arg.id
    /\ call.arg.updates.category # call.arg.category
    /\ RecordsWithId(shapeFiles[call.arg.category], call.arg.id) # {}

\* C4: addShapeToLibrary(S) applied again right after addShapeToLibrary(S)
\* leaves every category file as the first application left it.
C4_UpsertIdempotent ==
    [][(/\ call.op = "addShapeToLibrary" /\ call.ok
        /\ call'.op = "addShapeToLibrary" /\ call'.ok
        /\ call'.arg.shape = call.arg.shape) => shapeFiles' = shapeFiles]_vars

\* C4, its case: S was just added to a file that holds another record of the
\* same name, so that the order of the two rests on the sort being stable.
C4_Witness ==
    /\ call.op = "addShapeToLibrary"
    /\ call.ok
    /\ LET content == shapeFiles[call.arg.shape.category].content
       IN  \E i, j \in 1..Len(content) :
               /\ i < j
               /\ content[j] = call.arg.shape
               /\ content[i].name = content[j].name

\* Non-decreasing order of the names under locale-aware comparison
SortedByName(content) ==
    \A i, j \in 1..Len(content) :
        i < j => LocaleKey[content[i].name] <= LocaleKey[content[j].name]

\* C10: every category file the repository has written is sorted by name.
C10_FilesSorted ==
    \A c \in CategoryIds : shapeFiles[c].kind = "ok" => SortedByName(shapeFiles[c].content)

\* C10, its case: a shape appended after records of greater names is now
\* the first record of its file.
C10_Witness ==
    /\ call.op = "addShapeToLibrary"
    /\ call.ok
    /\ LET content == shapeFiles[call.arg.shape.category].content
       IN  /\ Len(content) >= 2
           /\ content[1] = call.arg.shape
           /\ LocaleKey[content[1].name] < LocaleKey[content[2].name]

(***************************************************************************)
(* Properties of the preview asset manager and of the edit handler.        *)
(***************************************************************************)
RepairCalled == call'.op = "repairOrphanedPreviews"
MoveCalled == call'.op = "movePreviewToCategory"
EditCalled == call'.op = "EditShapeForm.handleSubmit"

\* The records of category A, as the repair reads them
RecordsOf(A) == IF shapeFiles[A].kind = "ok" THEN Range(shapeFiles[A].content) ELSE {}

\* The preview of record r of category A does not resolve while <id>.png
\* lies in the folder of another category of the store.
Orphaned(A, r) ==
    /\ assets[r.preview] = NoFile
    /\ \E B \in IdsOf(StoreList) \ {A} : assets[<<B, r.id>>] # NoFile

\* No category before position i of the store holds a record with this id
\* whose preview is missing too.
FirstMissing(i, id) ==
    \A k \in 1..(i - 1) :
        \A q \in RecordsOf(StoreList[k].id) : q.id = id => assets[q.preview] # NoFile

\* C5: a forced repair that returns leaves resolving the preview path of a
\* record of store category A that did not resolve while <id>.png lay in the
\* folder of another store category B.  Stated for the record the scan
\* reaches first among the records of its id that miss their preview: the
\* file is there to be moved for it.
C5_RepairResolvesOrphan ==
    [][(RepairCalled /\ call'.arg.force /\ call'.ok) =>
          \A i \in 1..Len(StoreList) :
              \A r \in RecordsOf(StoreList[i].id) :
                  (Orphaned(StoreList[i].id, r) /\ FirstMissing(i, r.id))
                      => assets'[r.preview] # NoFile]_vars

\* C6: with the marker present a non-forced repair returns 0 and moves,
\* copies and writes no file; every run that is not skipped writes the marker.
C6_RepairGate ==
    [][RepairCalled =>
          /\ (marker /\ ~call'.arg.force) =>
                 /\ call'.ok /\ call'.ret = 0 /\ call'.fx = {}
                 /\ UNCHANGED <<categoriesFile, shapeFiles, assets, assetDirs, marker>>
          /\ (~(marker /\ ~call'.arg.force) /\ call'.ok) =>
                 /\ marker'
                 /\ <<"write", ".preview_repair_done">> \in call'.fx]_vars

\* C7: movePreviewToCategory and repairOrphanedPreviews never raise, whatever
\* file operation fails.
C7_PreviewCallsNeverRaise ==
    call.op \in {"movePreviewToCategory", "repairOrphanedPreviews"} => call.ok

\* C8: if a preview file was at the old path before movePreviewToCategory, a
\* file with that content is at the old or at the new path afterwards; the
\* source is gone only if the rename succeeded, and after a failed rename the
\* source is still in place, copied or not.
C8_RelocationKeepsPreview ==
    [][MoveCalled =>
          LET old == <<call'.arg.oldCategory, call'.arg.shape.id>>
              new == <<call'.arg.newCategory, call'.arg.shape.id>>
              renamed == <<"rename", old[1], old[2], new[1], new[2]>> \in call'.fx
          IN  assets[old] # NoFile =>
                  /\ assets'[old] = assets[old] \/ assets'[new] = assets[old]
                  /\ assets'[old] = NoFile => renamed
                  /\ ~renamed => assets'[old] = assets[old]]_vars

\* C8, its case: the rename failed and the copy fallback ran, the preview is
\* now at both paths.
C8_Witness ==
    /\ call.op = "movePreviewToCategory"
    /\ call.ok
    /\ call.arg.oldCategory # call.arg.newCategory
    /\ LET old == <<call.arg.oldCategory, call.arg.shape.id>>
           new == <<call.arg.newCategory, call.arg.shape.id>>
       IN  /\ <<"copy", old[1], old[2], new[1], new[2]>> \in call.fx
           /\ assets[old] # NoFile
           /\ assets[new] = assets[old]

C11_IdsUniquePerCategory ==
    \A c \in CategoryIds :
        shapeFiles[c].kind = "ok" =>
            \A i, j \in 1..Len(shapeFiles[c].content) :
                shapeFiles[c].content[i].id = shapeFiles[c].content[j].id => i = j

\* C11, its case: an update that carried the id of another record of the
\* same file succeeded, and the file holds both records.
C11_Witness ==
    /\ call.op = "updateShapeInLibrary"
    /\ call.ok
    /\ "id" \in DOMAIN call.arg.updates
    /\ call.arg.updates.id # call.arg.id
    /\ RecordsWithId(shapeFiles[call.arg.category], call.arg.id) # {}
    /\ RecordsWithId(shapeFiles[call.arg.category], call.arg.updates.id) # {}

\* The ids of a category list, in its order
IdSeq(list) == [i \in 1..Len(list) |-> list[i].id]

\* The ids of the store are pairwise distinct slugs
DistinctSlugs(list) ==
    /\ \A i, j \in 1..Len(list) : list[i].id = list[j].id => i = j
    /\ \A i \in 1..Len(list) : MatchesSlugPattern(list[i].id)

\* C12: in every state of the category store reachable from the default set
\* by addCategory, renameCategory and deleteCategory the ids are pairwise
\* distinct and match ^[a-z0-9-]+$, and no step changes the id of an entry
\* that stays: the ids after a step are the ids before it, with one id
\* appended or one id taken out at most.
C12_IdsDistinctStable ==
    /\ DistinctSlugs(StoreList)
    /\ [][LET before == IdSeq(StoreList)
              after == IdSeq(StoreListOf(categoriesFile', DEFAULT_CATEGORIES'))
          IN  /\ DistinctSlugs(StoreListOf(categoriesFile', DEFAULT_CATEGORIES'))
              /\ \/ after = before
                 \/ \E id \in CategoryIds : after = Append(before, id)
                 \/ \E i \in 1..Len(before) : after = Splice1(before, i)]_vars

\* C12, its case: a category was added, a seed category deleted and an
\* entry renamed.
C12_Witness ==
    /\ call.op = "renameCategory"
    /\ call.ok
    /\ "icons" \in IdsOf(StoreList)
    /\ "basic" \notin IdsOf(StoreList)
    /\ \E i \in 1..Len(StoreList) : StoreList[i].name = "Renamed"

\* C13: renameCategory(id, newName) fails if and only if id is not in the
\* store; on success the entry with that id has the new name and nothing
\* else differs: the ids, the other names and the order are the same; on
\* failure the store is the same.
C13_RenameOnlyName ==
    [][call'.op = "renameCategory" =>
          LET before == StoreList
              after == StoreListOf(categoriesFile', DEFAULT_CATEGORIES')
              id == call'.arg.id
          IN  /\ call'.ok <=> id \in IdsOf(before)
              /\ ~call'.ok => after = before
              /\ call'.ok =>
                    /\ Len(after) = Len(before)
                    /\ \A i \in 1..Len(before) :
                           /\ after[i].id = before[i].id
                           /\ after[i].name = IF before[i].id = id THEN call'.arg.name
                                              ELSE before[i].name]_vars

\* C13, its case: an entry that is not the last of a list of several was
\* renamed.
C13_Witness ==
    /\ call.op = "renameCategory"
    /\ call.ok
    /\ \E i \in 1..(Len(StoreList) - 1) :
           StoreList[i].id = call.arg.id /\ StoreList[i].name = call.arg.name

(***************************************************************************)
(* Loading and saving the category list.                                   *)
(***************************************************************************)
LoadCalled == call'.op = "loadCategories"

\* What the claims say of a load that finds no file: the default set is
\* written, then returned.
LoadCreatesDefaults ==
    categoriesFile.kind = "absent" =>
        /\ call'.ok
        /\ <<"write", "categories.json">> \in call'.fx
        /\ categoriesFile' = JsonFile(SeedCategories)
        /\ call'.ret = SeedCategories

\* ... and of a load that finds a file it cannot parse: the defaults are
\* returned, the file is left as it was.
LoadFailsSoft ==
    categoriesFile.kind = "corrupt" =>
        /\ call'.ok
        /\ call'.ret = SeedCategories
        /\ call'.fx = {}
        /\ categoriesFile' = categoriesFile

\* C14 as stated: in every other case, that is whenever the file is there
\* and parses, the load returns the stored list in stored order.
C14_LoadAsStated ==
    [][LoadCalled =>
          /\ LoadCreatesDefaults
          /\ LoadFailsSoft
          /\ categoriesFile.kind \notin {"absent", "corrupt"} =>
                /\ call'.ok
                /\ call'.ret = categoriesFile.content
                /\ call'.fx = {}
                /\ categoriesFile' = categoriesFile]_opVars

\* C14, amended: a file that parses to an object without a categories member
\* is answered like an unparsable file, with the defaults and no write; the
\* stored list is returned when the file holds one.
C14_LoadReturnsListOrDefaults ==
    [][LoadCalled =>
          /\ LoadCreatesDefaults
          /\ LoadFailsSoft
          /\ categoriesFile.kind = "nofield" =>
                /\ call'.ok
                /\ call'.ret = SeedCategories
                /\ call'.fx = {}
                /\ categoriesFile' = categoriesFile
          /\ categoriesFile.kind = "ok" =>
                /\ call'.ok
                /\ call'.ret = categoriesFile.content
                /\ call'.fx = {}
                /\ categoriesFile' = categoriesFile]_opVars

\* C14, its case: a load has answered a file without a categories member
\* with the defaults.
C14_Witness ==
    /\ call.op = "loadCategories"
    /\ call.ok
    /\ categoriesFile = NoFieldFile
    /\ call.ret = SeedCategories

\* C16: for a categories.json that is present and parses, saving what
\* loadCategories returns and loading again returns the same sequence of
\* (id, name) pairs in the same order, which is the list the store had.
C16_RoundTrip ==
    [][(call'.op = "saveCategories(loadCategories())" /\ call'.ok
            /\ categoriesFile.kind \in {"ok", "nofield"}) =>
          /\ call'.ret.before = StoreList
          /\ call'.ret.after = call'.ret.before
          /\ StoreListOf(categoriesFile', DEFAULT_CATEGORIES') = StoreList]_opVars

\* C16, its case: the round trip of a list that had an entry added and an
\* entry renamed.
C16_Witness ==
    /\ call.op = "saveCategories(loadCategories())"
    /\ call.ok
    /\ call.ret.after = StoreList
    /\ "icons" \in IdsOf(StoreList)
    /\ \E i \in 1..Len(StoreList) : StoreList[i].name = "Renamed"

\* C15: the default set is a fixed seed set: whatever add, rename and
\* delete calls went before, a load that falls back to the defaults (no
\* file, or one without a readable list) yields the four seed entries with
\* their seed names, and writes those when it creates the file.
C15_DefaultsAreSeed ==
    [][(LoadCalled /\ call'.ok /\ categoriesFile.kind # "ok") =>
          /\ call'.ret = SeedCategories
          /\ categoriesFile.kind = "absent" => categoriesFile' = JsonFile(SeedCategories)]_opVars

(***************************************************************************)
(* Errors.                                                                 *)
(***************************************************************************)

\* The records a category file holds for its readers: none when the file is
\* missing or unreadable.
StoredRecords(c) == IF shapeFiles[c].kind = "ok" THEN shapeFiles[c].content ELSE <<>>

\* C17: updateShapeInLibrary(id, category, ...) and removeShapeFromLibrary(id,
\* category) raise if and only if the category's file holds no record with
\* that id, and then write no file; a successful remove leaves the previous
\* records without the one of that id, the other files as they were.
C17_MissingShapeRaises ==
    [][call'.op \in {"updateShapeInLibrary", "removeShapeFromLibrary"} =>
          LET id == call'.arg.id
              c == call'.arg.category
              present == \E i \in 1..Len(StoredRecords(c)) : StoredRecords(c)[i].id = id
          IN  /\ call'.ok <=> present
              /\ ~call'.ok =>
                    /\ call'.fx = {}
                    /\ UNCHANGED <<categoriesFile, shapeFiles, assets, assetDirs, marker>>
              /\ (call'.ok /\ call'.op = "removeShapeFromLibrary") =>
                    /\ shapeFiles'[c] = JsonFile(SelectSeq(StoredRecords(c), LAMBDA x : x.id # id))
                    /\ \A d \in CategoryIds \ {c} : shapeFiles'[d] = shapeFiles[d]]_opVars

\* C17, its case: a record was removed from a file that holds another one.
C17_Witness ==
    /\ call.op = "removeShapeFromLibrary"
    /\ call.ok
    /\ Len(StoredRecords(call.arg.category)) >= 1
    /\ RecordsWithId(shapeFiles[call.arg.category], call.arg.id) = {}

\* C18: when the write of categories.json fails, the error of saveCategories
\* carries the underlying cause and names the target file path.
C18_SaveErrorNamesPath ==
    call.err.type = "save-categories" =>
        call.err.cause /\ call.err.path = "categories.json"

\* The errors of validation, by type, and the calls that raise them
ValidationErrors == {"bad-id", "exists", "not-found", "not-empty", "shape-not-found"}
ValidatingCalls ==
    {"addCategory", "renameCategory", "deleteCategory",
     "updateShapeInLibrary", "removeShapeFromLibrary"}

\* C19: a validation error is raised before any file is written, and its
\* message names the offending identifier the caller passed.
C19_ValidationErrors ==
    (call.op \in ValidatingCalls /\ call.err.type \in ValidationErrors) =>
        /\ call.fx = {}
        /\ call.arg.id \in call.err.ids

\* C20: category load, display-name lookup and shape-count lookup never
\* raise, whatever read, parse or write of the backing files fails.
C20_LookupsNeverRaise ==
    call.op \in {"loadCategories", "getCategoryDisplayName", "getShapeCountInCategory"}
        => call.ok

(***************************************************************************)
(* C21.  getShapeCounts returns a mapping whose keys are exactly the ids   *)
(* of the categories in the store, each mapped to the number of records    *)
(* in that category's file (0 for a missing, unreadable or empty file),    *)
(* and getTotalShapeCount is the sum of those numbers, which is the sum    *)
(* of getShapeCountInCategory over the categories of the store.            *)
(***************************************************************************)
RECURSIVE SumOver(_, _)
SumOver(f, S) ==
    IF S = {} THEN 0
    ELSE LET x == CHOOSE y \in S : TRUE IN f[x] + SumOver(f, S \ {x})

RecordCount(c) == IF shapeFiles[c].kind = "ok" THEN Len(shapeFiles[c].content) ELSE 0

C22_RepairKeepsResolved ==
    [][RepairCalled =>
          \A c \in DOMAIN shapeFiles :
              \A r \in RecordsOf(c) :
                  assets[r.preview] # NoFile => assets'[r.preview] # NoFile]_opVars

(***************************************************************************)
(* C25.  addShapeToLibrary, updateShapeInLibrary and removeShapeFromLibrary *)
(* on category c change shapes/<c>.json only and, in it, only the record   *)
(* with the given id (the order of the records apart): categories.json,    *)
(* the file of every other category and every preview asset, the preview   *)
(* of a removed shape included, are as before.                             *)
(***************************************************************************)
ShapeCalls == {"addShapeToLibrary", "updateShapeInLibrary", "removeShapeFromLibrary"}

C25_ShapeCallFrame ==
    [][call'.op \in ShapeCalls =>
          LET c  == IF call'.op = "addShapeToLibrary"
                    THEN call'.arg.shape.category ELSE call'.arg.category
              id == IF call'.op = "addShapeToLibrary"
                    THEN call'.arg.shape.id ELSE call'.arg.id
          IN  /\ categoriesFile' = categoriesFile
              /\ DEFAULT_CATEGORIES' = DEFAULT_CATEGORIES
              /\ assets' = assets
              /\ assetDirs' = assetDirs
              /\ marker' = marker
              /\ \A d \in DOMAIN shapeFiles \ {c} : shapeFiles'[d] = shapeFiles[d]
              /\ call'.ok =>
                     /\ shapeFiles'[c].kind = "ok"
                     /\ {r \in Range(shapeFiles'[c].content) : r.id # id}
                            = {r \in RecordsOf(c) : r.id # id}
              /\ ~call'.ok => shapeFiles'[c] = shapeFiles[c]]_opVars

\* A shape removed from a file that keeps another record, while the file of
\* the other category holds records and the preview of the removed shape lies
\* in its folder.
C25_Witness ==
    /\ call.op = "removeShapeFromLibrary"
    /\ call.ok
    /\ assets[<<call.arg.category, call.arg.id>>] # NoFile
    /\ Len(shapeFiles[call.arg.category].content) = 1
    /\ \E d \in PreviewCategories \ {call.arg.category} :
           shapeFiles[d].kind = "ok" /\ Len(shapeFiles[d].content) > 0

(***************************************************************************)
(* C28.  A category-change edit preserves every other shape: moving S from *)
(* O to N removes or replaces no record N held before the edit, so the     *)
(* number of shape records across all category files is the same before    *)
(* and after a successful move.                                            *)
(***************************************************************************)
TotalRecords(files) ==
    SumOver([c \in DOMAIN files |-> IF files[c].kind = "ok" THEN Len(files[c].content) ELSE 0],
            DOMAIN files)

C28_MovePreservesOthers ==
    [][(EditCalled /\ call'.ok /\ call'.arg.shape.category # call'.arg.values.category) =>
          LET N == call'.arg.values.category
          IN  /\ RecordsOf(N) \subseteq Range(shapeFiles'[N].content)
              /\ TotalRecords(shapeFiles') = TotalRecords(shapeFiles)]_opVars

(***************************************************************************)
(* C30.  Every record stored in shapes/<c>.json has its category field     *)
(* equal to c: from files where this holds, any sequence of                *)
(* addShapeToLibrary, updateShapeInLibrary, removeShapeFromLibrary and     *)
(* category-change edits keeps it.                                         *)
(***************************************************************************)
C30_CategoryFieldIsFile ==
    \A c \in DOMAIN shapeFiles : \A r \in RecordsOf(c) : r.category = c

\* An update whose fields name another category went through, while the
\* file of that other category holds a record of its own.
C30_Witness ==
    /\ call.op = "updateShapeInLibrary"
    /\ call.ok
    /\ "category" \in DOMAIN call.arg.updates
    /\ call.arg.updates.category # call.arg.category
    /\ \E r \in RecordsOf(call.arg.updates.category) : r.name = "box"

(***************************************************************************)
(* C29.  Saving a captured shape never overwrites a record: on both save   *)
(* paths, the Save form and the auto-save after capture, when the target   *)
(* category already holds a record with the id of the captured shape the   *)
(* save is refused with 'Shape already exists' and the category file is    *)
(* left as it was.                                                         *)
(***************************************************************************)
SaveCalls == {"SaveForm.handleSubmit", "CaptureShape.handleCapture"}

C29_SaveNeverOverwrites ==
    [][call'.op \in SaveCalls =>
          LET id == call'.arg.shape.id
              c  == IF call'.op = "SaveForm.handleSubmit"
                    THEN call'.arg.values.category ELSE call'.arg.shape.category
          IN  RecordsWithId(shapeFiles[c], id) # {} =>
                  /\ ~call'.ok
                  /\ call'.err.type = "shape-exists"
                  /\ shapeFiles'[c] = shapeFiles[c]]_opVars

(***************************************************************************)
(* C23.  Each user action runs to completion before the next begins:       *)
(* between the first and the last file write of one UI handler (between    *)
(* the remove and the add of a category-change edit, between the add and   *)
(* the later update of a capture save) no other handler writes a file.     *)
(* Stated on the handler that writes again: no other handler has written   *)
(* since its earlier write.                                                *)
(***************************************************************************)
C23_HandlersRunToCompletion ==
    [][(call'.op = "resume" /\ Writes(call'.fx)) =>
          ~handlers[call'.arg.slot].foreign]_opVars

(***************************************************************************)
(* C26.  Referential integrity: in every state reachable through the UI    *)
(* handlers every shape record stored in a category file belongs to a      *)
(* category present in the category store.                                 *)
(***************************************************************************)
C26_RecordsBelongToStore ==
    \A c \in DOMAIN shapeFiles : RecordCount(c) > 0 => c \in IdsOf(StoreList)

(***************************************************************************)
(* C27.  A category is never deleted while it holds shapes, also when      *)
(* handlers interleave: a shape saved into C after the count check of the  *)
(* delete handler, or during its confirmation dialog, makes the later      *)
(* deleteCategory(C) fail on the count it reads again, so that whenever C  *)
(* leaves categories.json its shape file holds no record.                  *)
(***************************************************************************)
C27_NeverDeletedWithShapes ==
    [][/\ \A c \in IdsOf(StoreList) \ IdsOf(StoreList') :
              RecordCount(c) = 0 /\ shapeFiles'[c] = shapeFiles[c]
       /\ (/\ call'.op = "resume"
           /\ call'.arg.kind = "handleDeleteCategory"
           /\ call'.arg.pc = "toast"
           /\ handlers[call'.arg.slot].values.category \in IdsOf(StoreList)
           /\ RecordCount(handlers[call'.arg.slot].values.category) > 0)
              => /\ ~call'.ok
                 /\ call'.err.type = "not-empty"
                 /\ categoriesFile' = categoriesFile]_opVars

\* The delete handler passed its count check, a shape was saved into the
\* category while the dialog was open, and deleteCategory then failed on
\* the one record it counted.
C27_Witness ==
    /\ call.op = "resume"
    /\ call.arg.kind = "handleDeleteCategory"
    /\ call.arg.pc = "toast"
    /\ ~call.ok
    /\ call.err.type = "not-empty"
    /\ call.err.count = 1

(***************************************************************************)
(* C24.  Last writer wins, silently: when two edits of the same shape are  *)
(* invoked near-simultaneously, neither raises an error and the persisted  *)
(* record is the one written by whichever edit wrote last.  Stated on      *)
(* every resumption of an edit that was in flight together with another    *)
(* edit of the same shape: it does not raise, and when it stores the       *)
(* record, the stored record carries its name.                             *)
(***************************************************************************)
EditResumed == call'.op = "resume" /\ call'.arg.kind = "EditShapeForm.handleSubmit"

\* The edit of slot k has stored its record
StoredBy(k) ==
    LET h == handlers[k] IN
    /\ shapeFiles'[h.values.category].kind = "ok"
    /\ \E i \in 1..Len(shapeFiles'[h.values.category].content) :
           LET r == shapeFiles'[h.values.category].content[i]
           IN  r.id = h.shape.id /\ r.name = h.values.name

C24_LastWriterWinsAnyEdit ==
    [][(EditResumed /\ call'.arg.raced # "") =>
          /\ call'.ok
          /\ ~InFlight(handlers'[call'.arg.slot]) => StoredBy(call'.arg.slot)]_opVars

\* C24 as amended: the same for edits that keep the category of the shape
\* and were in flight only with edits that keep it.
C24_LastWriterWinsUpdate ==
    [][(EditResumed /\ call'.arg.raced = "update") =>
          /\ call'.ok
          /\ StoredBy(call'.arg.slot)]_opVars

\* One of two racing edits that keep the category has stored its name; the
\* other, which was submitted with another name, is still suspended.
C24_Witness ==
    /\ call.op = "resume"
    /\ call.arg.kind = "EditShapeForm.handleSubmit"
    /\ call.arg.raced = "update"
    /\ call.ok
    /\ \E j \in Slots :
           /\ handlers[j].kind = "EditShapeForm.handleSubmit"
           /\ handlers[j].raced = "update"
           /\ \E r \in RecordsOf(handlers[j].shape.category) :
                  r.id = handlers[j].shape.id /\ r.name # handlers[j].values.name
                      /\ r.name # handlers[j].shape.name

====
